---- MODULE Spec2Model ----
(***************************************************************************)
(* Model of src/ner_cluster.py: the IOB corpus loader, the label           *)
(* normaliser and vocabulary, the subword label alignment, the decoding of *)
(* predictions and the per-trial control flow of the sweep.                *)
(*                                                                         *)
(* Python strings are sequences of one-character strings; Python lists are *)
(* sequences; None (a word id) is the integer NoneIdx.                     *)
(* Every component has its own specification (SpecParse, SpecClean,        *)
(* SpecVocab, SpecAlign, SpecDecode, SpecTrain); the variables of the      *)
(* other components stay at their idle values.                             *)
(***************************************************************************)
EXTENDS Integers, Sequences, FiniteSets, TLC

VARIABLES
  \* load_and_parse_iob
  data, sentences, labels, sentence, label, ppc,
  \* clean_labels
  label_list, cleaned_once, cleaned_twice, cpc,
  \* module-level corpus preparation
  train_labels, test_labels, cleaned_train_labels, cleaned_test_labels,
  cleaned_unique_labels, encoded_test, vpc,
  \* tokenize_and_align_labels
  ex_label, word_ids, label_ids, previous_word_idx, wpos, apc,
  \* align_predictions
  predictions, gold_ids, preds_list, out_label_list, di, dj, dpc,
  \* train and the sweep agent
  started, tpc, step, exc, caught, events, alert_text, failed

parseVars == <<data, sentences, labels, sentence, label, ppc>>
cleanVars == <<label_list, cleaned_once, cleaned_twice, cpc>>
vocabVars == <<train_labels, test_labels, cleaned_train_labels,
               cleaned_test_labels, encoded_test, vpc>>
alignVars == <<ex_label, word_ids, label_ids, previous_word_idx, wpos, apc>>
decodeVars == <<predictions, gold_ids, preds_list, out_label_list, di, dj, dpc>>
trainVars == <<started, tpc, step, exc, caught, events, alert_text, failed>>
vars == <<parseVars, cleanVars, vocabVars, cleaned_unique_labels, alignVars,
          decodeVars, trainVars>>

\* What the actions of one component leave alone.
notParse == <<cleanVars, vocabVars, cleaned_unique_labels, alignVars,
              decodeVars, trainVars>>
notClean == <<parseVars, vocabVars, cleaned_unique_labels, alignVars,
              decodeVars, trainVars>>
notVocab == <<parseVars, cleanVars, alignVars, decodeVars, trainVars>>
notAlign == <<parseVars, cleanVars, vocabVars, cleaned_unique_labels,
              decodeVars, trainVars>>
notDecode == <<parseVars, cleanVars, vocabVars, cleaned_unique_labels,
               alignVars, trainVars>>
notTrain == <<parseVars, cleanVars, vocabVars, cleaned_unique_labels,
              alignVars, decodeVars>>

\* ------------------------------------------------------------------------
\* Idle values: a component that a specification does not run.
ParseIdle ==
  /\ data = <<>> /\ sentences = <<>> /\ labels = <<>>
  /\ sentence = <<>> /\ label = <<>> /\ ppc = "off"
CleanIdle ==
  /\ label_list = <<>> /\ cleaned_once = <<>> /\ cleaned_twice = <<>>
  /\ cpc = "off"
VocabIdle ==
  /\ train_labels = <<>> /\ test_labels = <<>>
  /\ cleaned_train_labels = <<>> /\ cleaned_test_labels = <<>>
  /\ encoded_test = <<>> /\ vpc = "off"
AlignIdle ==
  /\ ex_label = <<>> /\ word_ids = <<>> /\ label_ids = <<>>
  /\ previous_word_idx = 0 /\ wpos = 0 /\ apc = "off"
DecodeIdle ==
  /\ predictions = <<>> /\ gold_ids = <<>> /\ preds_list = <<>>
  /\ out_label_list = <<>> /\ di = 0 /\ dj = 0 /\ dpc = "off"
TrainIdle ==
  /\ started = 0 /\ tpc = "off" /\ step = 0 /\ exc = "" /\ caught = ""
  /\ events = <<>>
  /\ alert_text = <<>> /\ failed = 0

\* ------------------------------------------------------------------------
\* Python string helpers (str.strip, str.split, str.startswith).
Whitespace == {" "}

RECURSIVE lstrip(_)
lstrip(s) == IF s # <<>> /\ Head(s) \in Whitespace THEN lstrip(Tail(s)) ELSE s

RECURSIVE rstrip(_)
rstrip(s) ==
  IF s # <<>> /\ s[Len(s)] \in Whitespace
  THEN rstrip(SubSeq(s, 1, Len(s) - 1))
  ELSE s

strip(s) == rstrip(lstrip(s))

\* s.split(sep): the fields between the separators, always at least one.
RECURSIVE split(_, _)
split(s, sep) ==
  IF \E i \in 1..Len(s) : s[i] = sep
  THEN LET i == CHOOSE i \in 1..Len(s) :
                  s[i] = sep /\ \A k \in 1..(i - 1) : s[k] # sep
       IN <<SubSeq(s, 1, i - 1)>> \o split(SubSeq(s, i + 1, Len(s)), sep)
  ELSE <<s>>

startswith(s, c) == Len(s) > 0 /\ s[1] = c

\* ------------------------------------------------------------------------
\* load_and_parse_iob (lines 29-60)

\* The lines the input text is made of: blank, whitespace only, comments
\* (bare, with text, indented, indented with a comma), data lines (plain,
\* with surrounding whitespace, with empty fields, with '#' inside the
\* token) and malformed lines (one field, three fields).
InputLines ==
  { <<>>,
    <<" ">>,
    <<"#">>,
    <<"#", "a", ",", "X">>,
    <<" ", "#">>,
    <<" ", "#", ",", "X">>,
    <<"a", ",", "X">>,
    <<" ", "b", " ", ",", " ", "Y", " ">>,
    <<",">>,
    <<"a", "#", ",", "Y">>,
    <<"a">>,
    <<"a", ",", "b", ",", "X">> }

MaxLines == 4

ParseInit ==
  /\ data = <<>>
  /\ sentences = <<>> /\ labels = <<>>
  /\ sentence = <<>> /\ label = <<>>
  /\ ppc = "scan"

\* Faulty variant of OnComment (sensitivity of C5): the flush without the
\* test of line 43.
OnCommentAlways ==
  /\ sentences' = Append(sentences, sentence)
  /\ labels' = Append(labels, label)
  /\ sentence' = <<>>
  /\ label' = <<>>

\* Lines 42-47: a comment line flushes a non-empty in-progress sentence.
OnComment ==
  IF sentence # <<>>
  THEN /\ sentences' = Append(sentences, sentence)
       /\ labels' = Append(labels, label)
       /\ sentence' = <<>>
       /\ label' = <<>>
  ELSE UNCHANGED <<sentences, labels, sentence, label>>

\* Faulty variant of OnData (sensitivity of C6): an empty tag is not
\* appended.
OnDataSkipEmptyTag(parts) ==
  IF Len(parts) = 2
  THEN /\ sentence' = Append(sentence, strip(parts[1]))
       /\ label' = IF strip(parts[2]) = <<>> THEN label
                   ELSE Append(label, strip(parts[2]))
       /\ UNCHANGED <<sentences, labels>>
  ELSE UNCHANGED <<sentences, labels, sentence, label>>

\* Lines 49-54: a data line with exactly two fields appends token and tag.
OnData(parts) ==
  IF Len(parts) = 2
  THEN /\ sentence' = Append(sentence, strip(parts[1]))
       /\ label' = Append(label, strip(parts[2]))
       /\ UNCHANGED <<sentences, labels>>
  ELSE UNCHANGED <<sentences, labels, sentence, label>>

\* Lines 38-54: one iteration of the loop over the lines, on the next line
\* of the input.
ScanLine ==
  /\ ppc = "scan"
  /\ Len(data) < MaxLines
  /\ \E raw \in InputLines :
       /\ data' = Append(data, raw)
       /\ LET line == strip(raw) IN
            IF line = <<>>
            THEN UNCHANGED <<sentences, labels, sentence, label>>
            ELSE IF startswith(line, "#")
                 THEN OnComment
                 ELSE OnData(split(line, ","))
  /\ ppc' = "scan"
  /\ UNCHANGED notParse

\* Lines 56-60: the end of the input flushes the last sentence and returns.
EndOfInput ==
  /\ ppc = "scan"
  /\ IF sentence # <<>>
     THEN /\ sentences' = Append(sentences, sentence)
          /\ labels' = Append(labels, label)
     ELSE UNCHANGED <<sentences, labels>>
  /\ ppc' = "done"
  /\ UNCHANGED <<data, sentence, label>>
  /\ UNCHANGED notParse

ParseNext == ScanLine \/ EndOfInput

\* ------------------------------------------------------------------------
\* The reference parse: filter, split at the comment lines, drop the empty
\* groups, strip the two fields of every line.
IsBlank(l) == strip(l) = <<>>
IsCommentLine(l) == startswith(l, "#")
TwoFields(l) == Len(split(l, ",")) = 2

RefKeep(l) == ~IsBlank(l) /\ (IsCommentLine(l) \/ TwoFields(l))

RECURSIVE RefGroups(_)
RefGroups(ls) ==
  IF \E i \in 1..Len(ls) : IsCommentLine(ls[i])
  THEN LET i == CHOOSE i \in 1..Len(ls) :
                  IsCommentLine(ls[i]) /\ \A k \in 1..(i - 1) : ~IsCommentLine(ls[k])
       IN <<SubSeq(ls, 1, i - 1)>> \o RefGroups(SubSeq(ls, i + 1, Len(ls)))
  ELSE <<ls>>

RefNonEmpty(g) == g # <<>>

RefParse(ls) ==
  LET groups == SelectSeq(RefGroups(SelectSeq(ls, RefKeep)), RefNonEmpty)
  IN << [k \in 1..Len(groups) |->
           [i \in 1..Len(groups[k]) |-> strip(split(groups[k][i], ",")[1])]],
        [k \in 1..Len(groups) |->
           [i \in 1..Len(groups[k]) |-> strip(split(groups[k][i], ",")[2])]] >>

StripAll(ls) == [i \in 1..Len(ls) |-> strip(ls[i])]

\* C5 (as amended): with every line first stripped of its surrounding
\* whitespace, load_and_parse_iob returns exactly the reference parse of the
\* lines: blank lines and lines without exactly two fields discarded, the
\* rest split at the comment lines, empty groups discarded, fields stripped.
C5_ParseIsReferenceOnStrippedLines ==
  ppc = "done" => <<sentences, labels>> = RefParse(StripAll(data))

\* C5 (as stated): the reference applied to the lines as they are, a comment
\* being a line that starts with '#'.
C5_ParseIsReferenceOnRawLines ==
  ppc = "done" => <<sentences, labels>> = RefParse(data)

\* C5 witness: a returned parse of two sentences, the first one ended by a
\* comment line, with a blank line inside the second.
C5_Witness ==
  /\ ppc = "done"
  /\ Len(sentences) = 2
  /\ Len(data) = 4
  /\ IsCommentLine(strip(data[2]))
  /\ IsBlank(data[3])

\* C6: at every point of the scan and in the returned value the in-progress
\* token and tag lists have equal length, sentences and labels have equal
\* length, and the k-th sentence is as long as the k-th tag sequence.
C6_ParallelLengths ==
  /\ Len(sentence) = Len(label)
  /\ Len(sentences) = Len(labels)
  /\ \A k \in 1..Len(sentences) :
       k <= Len(labels) => Len(sentences[k]) = Len(labels[k])

\* C6 witness: mid-scan, a sentence flushed and a data line with an empty
\* tag field in progress.
C6_Witness ==
  /\ ppc = "scan"
  /\ Len(sentences) >= 1
  /\ Len(sentence) >= 1
  /\ label[Len(label)] = <<>>

InitParse ==
  /\ ParseInit /\ CleanIdle /\ VocabIdle /\ cleaned_unique_labels = <<>>
  /\ AlignIdle /\ DecodeIdle /\ TrainIdle

SpecParse == InitParse /\ [][ParseNext]_vars

\* ------------------------------------------------------------------------
\* clean_labels (lines 74-78)
expected_labels == {"O", "B-Gene", "I-SNP", "I-Gene", "B-SNP", "B-RS"}

\* Tags a corpus file may carry: the expected ones and some that are not.
TagUniverse == expected_labels \cup {"B-Disease", "I-RS"}

MaxTags == 3

SeqsUpTo(S, n) == UNION {[1..k -> S] : k \in 0..n}

\* Faulty variant of clean_labels (sensitivity of C7): unknown tags are
\* dropped instead of replaced.
clean_labels_filter(ll) == SelectSeq(ll, LAMBDA t : t \in expected_labels)

\* Line 78.
clean_labels(ll) ==
  [i \in 1..Len(ll) |-> IF ll[i] \in expected_labels THEN ll[i] ELSE "O"]

CleanInit ==
  /\ label_list \in SeqsUpTo(TagUniverse, MaxTags)
  /\ cleaned_once = <<>> /\ cleaned_twice = <<>>
  /\ cpc = "start"

CleanOnce ==
  /\ cpc = "start"
  /\ cleaned_once' = clean_labels(label_list)
  /\ cpc' = "once"
  /\ UNCHANGED <<label_list, cleaned_twice>>
  /\ UNCHANGED notClean

CleanTwice ==
  /\ cpc = "once"
  /\ cleaned_twice' = clean_labels(cleaned_once)
  /\ cpc' = "twice"
  /\ UNCHANGED <<label_list, cleaned_once>>
  /\ UNCHANGED notClean

CleanNext == CleanOnce \/ CleanTwice

InitClean ==
  /\ ParseIdle /\ CleanInit /\ VocabIdle /\ cleaned_unique_labels = <<>>
  /\ AlignIdle /\ DecodeIdle /\ TrainIdle

SpecClean == InitClean /\ [][CleanNext]_vars

\* C7: clean_labels is idempotent, its output lies in the allowed set, it
\* keeps the length, and it leaves every allowed tag unchanged in place.
C7_CleanIdempotentAllowedLengthPreserving ==
  /\ cpc \in {"once", "twice"} =>
       /\ Len(cleaned_once) = Len(label_list)
       /\ \A i \in 1..Len(cleaned_once) :
            /\ cleaned_once[i] \in expected_labels
            /\ (i <= Len(label_list) /\ label_list[i] \in expected_labels)
                 => cleaned_once[i] = label_list[i]
  /\ cpc = "twice" => cleaned_twice = cleaned_once

\* C7 witness: cleaned twice, an input mixing an unknown tag with allowed
\* ones.
C7_Witness ==
  /\ cpc = "twice"
  /\ Len(label_list) = 3
  /\ label_list[1] = "B-Gene"
  /\ label_list[2] = "B-Disease"
  /\ label_list[3] = "I-Gene"
  /\ cleaned_once[2] = "O"

\* ------------------------------------------------------------------------
\* Module-level corpus preparation (lines 63-64, 81-89, 123-124)

\* Tags of the corpora: two expected tags and one unknown tag.
CorpusTags == {"O", "B-RS", "B-Disease"}

MaxSents == 2
MaxSentLen == 2

\* load_and_parse_iob returns non-empty sentences only.
TagSentences == SeqsUpTo(CorpusTags, MaxSentLen) \ {<<>>}
Corpora == SeqsUpTo(TagSentences, MaxSents)

Range(s) == {s[i] : i \in 1..Len(s)}
TagsOf(corpus) == UNION {Range(corpus[k]) : k \in 1..Len(corpus)}

\* list(set(...)): the distinct elements, in an order the set decides.
ListsOfSet(S) ==
  {f \in [1..Cardinality(S) -> S] : \A i, j \in 1..Cardinality(S) :
                                       f[i] = f[j] => i = j}

\* list.index(x), 0-based; defined when x is in the list.
index(lst, x) == (CHOOSE i \in 1..Len(lst) :
                    lst[i] = x /\ \A k \in 1..(i - 1) : lst[k] # x) - 1

\* The training corpus is not empty: the split of line 100 needs examples.
VocabInit ==
  /\ train_labels \in Corpora \ {<<>>}
  /\ test_labels \in Corpora
  /\ cleaned_train_labels = <<>> /\ cleaned_test_labels = <<>>
  /\ cleaned_unique_labels = <<>>
  /\ encoded_test = <<>>
  /\ vpc = "loaded"

\* Lines 81-82.
CleanCorpora ==
  /\ vpc = "loaded"
  /\ cleaned_train_labels' =
       [k \in 1..Len(train_labels) |-> clean_labels(train_labels[k])]
  /\ cleaned_test_labels' =
       [k \in 1..Len(test_labels) |-> clean_labels(test_labels[k])]
  /\ vpc' = "cleaned"
  /\ UNCHANGED <<train_labels, test_labels, cleaned_unique_labels, encoded_test>>
  /\ UNCHANGED notVocab

\* Line 89: the vocabulary is built from the cleaned training labels.
BuildVocabulary ==
  /\ vpc = "cleaned"
  /\ cleaned_unique_labels' \in ListsOfSet(TagsOf(cleaned_train_labels))
  /\ vpc' = "vocabulary"
  /\ UNCHANGED <<train_labels, test_labels, cleaned_train_labels,
                 cleaned_test_labels, encoded_test>>
  /\ UNCHANGED notVocab

\* Line 124 (through line 114): the test labels are encoded with the
\* vocabulary; list.index raises ValueError on a tag that is not in it.
EncodeTest ==
  /\ vpc = "vocabulary"
  /\ IF TagsOf(cleaned_test_labels) \subseteq Range(cleaned_unique_labels)
     THEN /\ encoded_test' =
               [k \in 1..Len(cleaned_test_labels) |->
                  [i \in 1..Len(cleaned_test_labels[k]) |->
                     index(cleaned_unique_labels, cleaned_test_labels[k][i])]]
          /\ vpc' = "encoded"
     ELSE /\ encoded_test' = encoded_test
          /\ vpc' = "ValueError"
  /\ UNCHANGED <<train_labels, test_labels, cleaned_train_labels,
                 cleaned_test_labels, cleaned_unique_labels>>
  /\ UNCHANGED notVocab

VocabNext == CleanCorpora \/ BuildVocabulary \/ EncodeTest

InitVocab ==
  /\ ParseIdle /\ CleanIdle /\ VocabInit
  /\ AlignIdle /\ DecodeIdle /\ TrainIdle

SpecVocab == InitVocab /\ [][VocabNext]_vars

\* C4: after cleaning, every tag of the test corpus is in the vocabulary
\* built from the cleaned training corpus, and encoding the test data never
\* fails the vocabulary lookup.
C4_TestTagsInVocabulary ==
  /\ vpc \in {"vocabulary", "encoded", "ValueError"} =>
       TagsOf(cleaned_test_labels) \subseteq Range(cleaned_unique_labels)
  /\ vpc # "ValueError"

\* ------------------------------------------------------------------------
\* tokenize_and_align_labels (lines 103-120), for one example of the batch

NoneIdx == -1
Ignore == -100

\* Tags of the example and of the vocabulary.
AlignTags == {"O", "B-SNP"}

MaxWords == 3
MaxSub == 3
MaxPad == 1
ModelMaxLen == 7

Min(a, b) == IF a < b THEN a ELSE b

RECURSIVE Repeat(_, _)
Repeat(x, n) == IF n = 0 THEN <<>> ELSE <<x>> \o Repeat(x, n - 1)

\* The subwords of the words in order: word w (0-based) gives counts[w + 1]
\* subwords, none for a word the tokenizer has no token for.
RECURSIVE SubwordsFrom(_, _)
SubwordsFrom(counts, w) ==
  IF w >= Len(counts) THEN <<>>
  ELSE Repeat(w, counts[w + 1]) \o SubwordsFrom(counts, w + 1)

\* Lines 104 and 107: the word ids of the tokenized example. The tokenizer
\* puts a special token before and after the subwords, truncates the
\* subwords to the model's length and pads to the longest example of the
\* batch; special and padding tokens have no word.
TokenizerWordIds(counts, pad) ==
  LET subs == SubwordsFrom(counts, 0)
      kept == SubSeq(subs, 1, Min(Len(subs), ModelMaxLen - 2))
  IN <<NoneIdx>> \o kept \o <<NoneIdx>> \o Repeat(NoneIdx, pad)

\* Faulty variant of AlignedLabel (sensitivity of C1): every subword of a
\* word carries the label.
AlignedLabelEverySubword(word_idx, prev, lab, vocab) ==
  IF word_idx = NoneIdx THEN Ignore
  ELSE index(vocab, lab[word_idx + 1])

\* Faulty variant of AlignedLabel (sensitivity of C9): a special token is
\* labelled with class 0.
AlignedLabelSpecialAsFirstClass(word_idx, prev, lab, vocab) ==
  IF word_idx = NoneIdx THEN 0
  ELSE IF word_idx # prev THEN index(vocab, lab[word_idx + 1])
  ELSE Ignore

\* Lines 111-116: the label of one subword position.
AlignedLabel(word_idx, prev, lab, vocab) ==
  IF word_idx = NoneIdx THEN Ignore
  ELSE IF word_idx # prev THEN index(vocab, lab[word_idx + 1])
  ELSE Ignore

\* Line 114 looks the tag up only in the branch of line 113.
LookupFails(word_idx, prev, lab, vocab) ==
  /\ word_idx # NoneIdx
  /\ word_idx # prev
  /\ lab[word_idx + 1] \notin Range(vocab)

AlignInit ==
  /\ \E S \in SUBSET AlignTags : cleaned_unique_labels \in ListsOfSet(S)
  /\ ex_label \in SeqsUpTo(AlignTags, MaxWords)
  /\ \E counts \in [1..Len(ex_label) -> 0..MaxSub] :
       \E pad \in 0..MaxPad :
         /\ word_ids = TokenizerWordIds(counts, pad)
         /\ Len(word_ids) <= ModelMaxLen
  /\ label_ids = <<>>
  /\ previous_word_idx = NoneIdx
  /\ wpos = 1
  /\ apc = "scan"

\* Lines 110-117: one iteration of the loop over the word ids.
AlignStep ==
  /\ apc = "scan"
  /\ wpos <= Len(word_ids)
  /\ LET word_idx == word_ids[wpos] IN
       IF LookupFails(word_idx, previous_word_idx, ex_label, cleaned_unique_labels)
       THEN /\ apc' = "ValueError"
            /\ UNCHANGED <<label_ids, previous_word_idx, wpos>>
       ELSE /\ label_ids' = Append(label_ids,
                 AlignedLabel(word_idx, previous_word_idx, ex_label,
                              cleaned_unique_labels))
            /\ previous_word_idx' = word_idx
            /\ wpos' = wpos + 1
            /\ apc' = "scan"
  /\ UNCHANGED <<ex_label, word_ids>>
  /\ UNCHANGED notAlign

\* Line 118: the loop is over, the labels of the example are complete.
AlignDone ==
  /\ apc = "scan"
  /\ wpos > Len(word_ids)
  /\ apc' = "done"
  /\ UNCHANGED <<ex_label, word_ids, label_ids, previous_word_idx, wpos>>
  /\ UNCHANGED notAlign

AlignNext == AlignStep \/ AlignDone

InitAlign ==
  /\ ParseIdle /\ CleanIdle /\ VocabIdle
  /\ AlignInit /\ DecodeIdle /\ TrainIdle

SpecAlign == InitAlign /\ [][AlignNext]_vars

FirstOfItsWord(i) == \A k \in 1..(i - 1) : word_ids[k] # word_ids[i]
PositionsOf(w) == {i \in 1..Len(word_ids) : word_ids[i] = w}

\* C1: of the positions of a word, the first in scan order carries the
\* vocabulary index of the word's tag and every other one the ignore
\* label; so exactly one position of every word that occurs is labelled.
C1_FirstSubwordCarriesLabel ==
  /\ \A i \in 1..Len(label_ids) :
       (i <= Len(word_ids) /\ word_ids[i] # NoneIdx) =>
         IF FirstOfItsWord(i)
         THEN /\ label_ids[i] # Ignore
              /\ ex_label[word_ids[i] + 1] \in Range(cleaned_unique_labels)
              /\ label_ids[i] =
                   index(cleaned_unique_labels, ex_label[word_ids[i] + 1])
         ELSE label_ids[i] = Ignore
  /\ apc = "done" =>
       \A w \in Range(word_ids) \ {NoneIdx} :
         Cardinality({i \in PositionsOf(w) :
                        i <= Len(label_ids) /\ label_ids[i] # Ignore}) = 1

\* C1 witness: a word of three subwords tagged B-SNP, labelled
\* [index(B-SNP), ignore, ignore].
C1_Witness ==
  /\ apc = "done"
  /\ \E i \in 1..(Len(word_ids) - 2) :
       /\ word_ids[i] # NoneIdx
       /\ word_ids[i + 1] = word_ids[i]
       /\ word_ids[i + 2] = word_ids[i]
       /\ ex_label[word_ids[i] + 1] = "B-SNP"
       /\ label_ids[i] = index(cleaned_unique_labels, "B-SNP")
       /\ label_ids[i + 1] = Ignore
       /\ label_ids[i + 2] = Ignore

\* C9: the aligned labels have one entry per subword position, and the
\* entry of every position without a word is the ignore label.
C9_OneLabelPerPositionSpecialIgnored ==
  /\ Len(label_ids) = wpos - 1
  /\ apc = "done" => Len(label_ids) = Len(word_ids)
  /\ \A i \in 1..Len(label_ids) :
       (i <= Len(word_ids) /\ word_ids[i] = NoneIdx) => label_ids[i] = Ignore

\* C9 witness: a padded example, completely labelled.
C9_Witness ==
  /\ apc = "done"
  /\ Len(word_ids) = ModelMaxLen
  /\ Len(label_ids) = ModelMaxLen
  /\ word_ids[ModelMaxLen] = NoneIdx
  /\ word_ids[ModelMaxLen - 1] = NoneIdx
  /\ word_ids[ModelMaxLen - 2] # NoneIdx

\* ------------------------------------------------------------------------
\* align_predictions (lines 168-181)

\* Cells (sequences times positions) of a batch.
MaxCells == 4

\* The vocabulary of the decoding runs has two classes.
DecodeTags == {"O", "B-SNP"}

\* Class scores of one position: one score per class.
ScoreVectors == {<<1, 0>>, <<0, 1>>, <<1, 1>>}

\* predictions.argmax(-1) at one position: the first class of highest
\* score, 0-based.
argmax(v) ==
  (CHOOSE c \in 1..Len(v) :
     /\ \A d \in 1..Len(v) : v[d] <= v[c]
     /\ \A d \in 1..(c - 1) : v[d] < v[c]) - 1

BatchShapes ==
  {sh \in (1..MaxCells) \X (1..MaxCells) : sh[1] * sh[2] <= MaxCells}

\* Lines 169-173: the shape is read and the two output lists are made,
\* one empty list per sequence.
DecodeInit ==
  /\ cleaned_unique_labels \in ListsOfSet(DecodeTags)
  /\ \E sh \in BatchShapes :
       /\ predictions \in [1..sh[1] -> [1..sh[2] -> ScoreVectors]]
       /\ gold_ids \in [1..sh[1] ->
                          [1..sh[2] -> {Ignore} \cup (0..(Cardinality(DecodeTags) - 1))]]
       /\ out_label_list = [i \in 1..sh[1] |-> <<>>]
       /\ preds_list = [i \in 1..sh[1] |-> <<>>]
  /\ di = 1 /\ dj = 1
  /\ dpc = "loop"

batch_size == Len(gold_ids)
seq_len == Len(gold_ids[1])

\* Faulty variant of DecodeCell (sensitivity of C8): the prediction is
\* appended at ignored positions too.
DecodeCellUnmaskedPreds(i, j) ==
  /\ out_label_list' =
       IF gold_ids[i][j] # Ignore
       THEN [out_label_list EXCEPT ![i] =
               Append(@, cleaned_unique_labels[gold_ids[i][j] + 1])]
       ELSE out_label_list
  /\ preds_list' =
       [preds_list EXCEPT ![i] =
          Append(@, cleaned_unique_labels[argmax(predictions[i][j]) + 1])]

\* Faulty variant of DecodeCell (sensitivity of C10): the gold string is
\* appended to both lists.
DecodeCellGoldForBoth(i, j) ==
  IF gold_ids[i][j] # Ignore
  THEN /\ out_label_list' =
            [out_label_list EXCEPT ![i] =
               Append(@, cleaned_unique_labels[gold_ids[i][j] + 1])]
       /\ preds_list' =
            [preds_list EXCEPT ![i] =
               Append(@, cleaned_unique_labels[gold_ids[i][j] + 1])]
  ELSE UNCHANGED <<out_label_list, preds_list>>

\* Lines 177-179: the body of the loops at sequence i, position j.
DecodeCell(i, j) ==
  IF gold_ids[i][j] # Ignore
  THEN /\ out_label_list' =
            [out_label_list EXCEPT ![i] =
               Append(@, cleaned_unique_labels[gold_ids[i][j] + 1])]
       /\ preds_list' =
            [preds_list EXCEPT ![i] =
               Append(@, cleaned_unique_labels[argmax(predictions[i][j]) + 1])]
  ELSE UNCHANGED <<out_label_list, preds_list>>

\* Lines 175-179: one iteration of the inner loop, then the next position
\* or the next sequence.
DecodeStep ==
  /\ dpc = "loop"
  /\ di <= batch_size
  /\ DecodeCell(di, dj)
  /\ IF dj < seq_len
     THEN /\ dj' = dj + 1 /\ di' = di
     ELSE /\ dj' = 1 /\ di' = di + 1
  /\ dpc' = "loop"
  /\ UNCHANGED <<predictions, gold_ids>>
  /\ UNCHANGED notDecode

\* Line 181.
DecodeReturn ==
  /\ dpc = "loop"
  /\ di > batch_size
  /\ dpc' = "done"
  /\ UNCHANGED <<predictions, gold_ids, preds_list, out_label_list, di, dj>>
  /\ UNCHANGED notDecode

DecodeNext == DecodeStep \/ DecodeReturn

InitDecode ==
  /\ ParseIdle /\ CleanIdle /\ VocabIdle
  /\ AlignIdle /\ DecodeInit /\ TrainIdle

SpecDecode == InitDecode /\ [][DecodeNext]_vars

\* The positions of sequence i whose gold label is not the ignore label, in
\* position order.
KeptPositions(i) ==
  SelectSeq([j \in 1..seq_len |-> j], LAMBDA j : gold_ids[i][j] # Ignore)

GoldAsPredictions ==
  \A i \in 1..batch_size : \A j \in 1..seq_len :
    gold_ids[i][j] # Ignore => argmax(predictions[i][j]) = gold_ids[i][j]

\* C8: with the gold labels as predictions (the predicted class equal to
\* the gold index at every position that is not ignored), align_predictions
\* returns preds_list = out_label_list.
C8_GoldAsPredictionsRoundTrip ==
  (dpc = "done" /\ GoldAsPredictions) => preds_list = out_label_list

\* C8 witness: a returned batch decoded from gold-as-predictions, with a
\* kept position of each class and an ignored position whose predicted
\* class is not ignored.
C8_Witness ==
  /\ dpc = "done"
  /\ GoldAsPredictions
  /\ \E i \in 1..batch_size : \E j \in 1..seq_len : gold_ids[i][j] = 0
  /\ \E i \in 1..batch_size : \E j \in 1..seq_len : gold_ids[i][j] = 1
  /\ \E i \in 1..batch_size : \E j \in 1..seq_len :
       gold_ids[i][j] = Ignore /\ argmax(predictions[i][j]) = 1

\* C10: for every sequence, preds_list and out_label_list have one entry per
\* position whose gold label is not ignore, in position order: the
\* vocabulary strings of the predicted and of the gold index there.
C10_DecodedListsFollowKeptPositions ==
  dpc = "done" =>
    /\ Len(preds_list) = batch_size
    /\ Len(out_label_list) = batch_size
    /\ \A i \in 1..batch_size :
         LET kept == KeptPositions(i) IN
           /\ Len(preds_list[i]) = Len(kept)
           /\ Len(out_label_list[i]) = Len(kept)
           /\ \A k \in 1..Len(kept) :
                /\ out_label_list[i][k] =
                     cleaned_unique_labels[gold_ids[i][kept[k]] + 1]
                /\ preds_list[i][k] =
                     cleaned_unique_labels[argmax(predictions[i][kept[k]]) + 1]

\* C10 witness: a returned batch of two sequences, one with an ignored
\* position and a kept one whose prediction differs from the gold label,
\* the other one all ignored.
C10_Witness ==
  /\ dpc = "done"
  /\ batch_size = 2
  /\ \E i \in 1..batch_size :
       /\ Len(out_label_list[i]) >= 1
       /\ \E j \in 1..seq_len :
            gold_ids[i][j] # Ignore /\ argmax(predictions[i][j]) # gold_ids[i][j]
       /\ \E j \in 1..seq_len : gold_ids[i][j] = Ignore
  /\ \E i \in 1..batch_size : out_label_list[i] = <<>>

\* ------------------------------------------------------------------------
\* train (lines 127-198) and the sweep agent (line 223)

\* wandb.agent(sweep_id, function=train, count=10)
Count == 10

\* The calls of the try block, in order (lines 133-188).
TrySteps ==
  << "TrainingArguments", "DataCollatorForTokenClassification", "Trainer",
     "trainer.train", "trainer.evaluate", "wandb.log eval_loss",
     "trainer.predict", "align_predictions", "classification_report",
     "wandb.log classification_report" >>

\* Messages of the exceptions a call of the try block may raise; "" is no
\* exception.
Messages == {"CUDA out of memory", "list index out of range"}

\* Lines 191-195: the text of the alert.
AlertText(e) == <<"An error occurred during training or evaluation: ", e>>

TrainInit ==
  /\ started = 0
  /\ tpc = "agent"
  /\ step = 0
  /\ exc = "" /\ caught = ""
  /\ events = <<>>
  /\ alert_text = <<>>
  /\ failed = 0

\* Line 223: the agent calls train for the next trial of its budget.
AgentCallsTrain ==
  /\ tpc = "agent"
  /\ started < Count
  /\ started' = started + 1
  /\ tpc' = "init"
  /\ step' = 0
  /\ exc' = "" /\ caught' = ""
  /\ events' = <<>>
  /\ alert_text' = <<>>
  /\ UNCHANGED failed
  /\ UNCHANGED notTrain

\* Lines 128-129: the run of the trial is opened.
WandbInit ==
  /\ tpc = "init"
  /\ events' = Append(events, "init")
  /\ step' = 1
  /\ tpc' = "try"
  /\ UNCHANGED <<started, exc, caught, alert_text, failed>>
  /\ UNCHANGED notTrain

\* Lines 131-188: the next call of the try block succeeds; after the last
\* one control goes to the finally clause.
TryStepReturns ==
  /\ tpc = "try"
  /\ step <= Len(TrySteps)
  /\ step' = step + 1
  /\ tpc' = IF step = Len(TrySteps) THEN "finally" ELSE "try"
  /\ UNCHANGED <<started, exc, caught, events, alert_text, failed>>
  /\ UNCHANGED notTrain

\* Lines 131-188: the next call of the try block raises an exception.
TryStepRaises ==
  /\ tpc = "try"
  /\ step <= Len(TrySteps)
  /\ \E m \in Messages : exc' = m
  /\ tpc' = "except"
  /\ UNCHANGED <<started, step, caught, events, alert_text, failed>>
  /\ UNCHANGED notTrain

\* Faulty variant of ExceptException (sensitivity of C3): a handler that
\* does not match the exception, which stays in flight.
ExceptValueErrorOnly ==
  /\ tpc = "except"
  /\ tpc' = "finally"
  /\ UNCHANGED <<started, step, exc, caught, events, alert_text, failed>>
  /\ UNCHANGED notTrain

\* Lines 189-195: the handler of the try block catches the exception and
\* sends the alert.
ExceptException ==
  /\ tpc = "except"
  /\ caught' = exc
  /\ exc' = ""
  /\ events' = Append(events, "alert")
  /\ alert_text' = AlertText(exc)
  /\ tpc' = "finally"
  /\ UNCHANGED <<started, step, failed>>
  /\ UNCHANGED notTrain

\* Faulty variant of FinallyFinish (sensitivity of C2): the run is finished
\* on the success path only.
FinallyFinishOnSuccessOnly ==
  /\ tpc = "finally"
  /\ events' = IF caught = "" /\ exc = "" THEN Append(events, "finish") ELSE events
  /\ tpc' = IF exc # "" THEN "propagated" ELSE "returned"
  /\ UNCHANGED <<started, step, exc, caught, alert_text, failed>>
  /\ UNCHANGED notTrain

\* Lines 197-198: the finally clause; an exception still in flight leaves
\* train after it.
FinallyFinish ==
  /\ tpc = "finally"
  /\ events' = Append(events, "finish")
  /\ tpc' = IF exc # "" THEN "propagated" ELSE "returned"
  /\ UNCHANGED <<started, step, exc, caught, alert_text, failed>>
  /\ UNCHANGED notTrain

\* Line 223: train has returned to the agent, which goes on to the next
\* trial until its budget is used.
AgentTrialOver ==
  /\ tpc = "returned"
  /\ failed' = IF caught # "" THEN failed + 1 ELSE failed
  /\ tpc' = IF started = Count THEN "agent_done" ELSE "agent"
  /\ UNCHANGED <<started, step, exc, caught, events, alert_text>>
  /\ UNCHANGED notTrain

TrainNext ==
  \/ AgentCallsTrain
  \/ WandbInit
  \/ TryStepReturns
  \/ TryStepRaises
  \/ ExceptException
  \/ FinallyFinish
  \/ AgentTrialOver

InitTrain ==
  /\ ParseIdle /\ CleanIdle /\ VocabIdle /\ cleaned_unique_labels = <<>>
  /\ AlignIdle /\ DecodeIdle /\ TrainInit

SpecTrain == InitTrain /\ [][TrainNext]_vars

EventPositions(e) == {i \in 1..Len(events) : events[i] = e}
Raised == exc # "" \/ caught # ""
TrainLeft == tpc \in {"returned", "propagated"}

\* C2: whether the trial succeeds or raises, the run is finished exactly
\* once when train gives control back, never more than once before, and
\* after an exception the alert comes before the finish.
C2_FinishedOnceAlertFirst ==
  /\ Cardinality(EventPositions("finish")) <= 1
  /\ TrainLeft => Cardinality(EventPositions("finish")) = 1
  /\ (TrainLeft /\ Raised) =>
       \E a \in EventPositions("alert") :
         \A f \in EventPositions("finish") : a < f

\* C2 witness: train has returned from a trial whose prediction raised.
C2_Witness ==
  /\ tpc = "returned"
  /\ caught # ""
  /\ TrySteps[step] = "trainer.predict"
  /\ events = <<"init", "alert", "finish">>

\* C3: an exception of a trial is caught in train and reported in an alert
\* that carries its message, it never leaves train, and the sweep stops
\* only when all Count trials were started, however many of them failed.
C3_TrialFailureContained ==
  /\ tpc # "propagated"
  /\ (tpc \in {"finally", "returned"} /\ Raised) =>
       /\ exc = ""
       /\ alert_text = AlertText(caught)
       /\ "alert" \in Range(events)
  /\ tpc = "agent" => started < Count
  /\ tpc = "agent_done" => started = Count

\* C3 witness: the sweep is over, all trials were started and every one of
\* them failed.
C3_Witness ==
  /\ tpc = "agent_done"
  /\ started = Count
  /\ failed = Count
====
